---- MODULE Spec2Model ----
(***************************************************************************)
(* A model of builtin/am.c: the session directory of "git am", the         *)
(* setup / load / run loop / advance / destroy state machine, and the      *)
(* per-patch pipeline parse -> write scratch -> apply -> commit -> next.   *)
(*                                                                         *)
(* File contents and strings are sequences of one-character strings        *)
(* (bytes).  A file that does not exist is ENOENT, a NULL pointer is NULL. *)
(***************************************************************************)
EXTENDS Integers, Sequences, FiniteSets, TLC

(* ---------------------------------------------------------------- bounds *)

\* the largest number of mails the splitter writes in one setup
MaxPatches == 2

\* the number of invocations of the tool in one behaviour
MaxRuns == 2

(* ------------------------------------------------------- basic encodings *)

\* a file that does not exist (never a byte string: bytes are 1 character)
ENOENT == <<"ENOENT">>

\* the NULL pointer of a char * field of struct am_state
NULL == <<"NULL">>

\* state->prec, set by am_state_init
prec == 4

\* enum patch_format
PATCH_FORMAT_UNKNOWN == 0

PATCH_FORMAT_MBOX == 1

Digits == <<"0", "1", "2", "3", "4", "5", "6", "7", "8", "9">>

IsDigit(c) == \E d \in 1..10 : Digits[d] = c

DigitVal(c) == (CHOOSE d \in 1..10 : Digits[d] = c) - 1

\* printf("%d") of a non-negative int
RECURSIVE FmtD(_)
FmtD(n) == IF n < 10 THEN <<Digits[n + 1]>>
           ELSE FmtD(n \div 10) \o <<Digits[(n % 10) + 1]>>

RECURSIVE Zeros(_)
Zeros(k) == IF k <= 0 THEN <<>> ELSE <<"0">> \o Zeros(k - 1)

\* printf("%0*d", width, n): zero-padded to at least width characters
FmtPad(width, n) == Zeros(width - Len(FmtD(n))) \o FmtD(n)

\* strtol(s, NULL, 10) of an unsigned string: the value of the longest prefix
\* of decimal digits, 0 when there is none
RECURSIVE StrtolFrom(_, _)
StrtolFrom(s, acc) ==
    IF s = <<>> \/ ~IsDigit(Head(s)) THEN acc
    ELSE StrtolFrom(Tail(s), 10 * acc + DigitVal(Head(s)))

Strtol(s) == StrtolFrom(s, 0)

IsSpace(c) == c \in {" ", "\t", "\n", "\r"}

\* strbuf_rtrim
RECURSIVE RTrim(_)
RTrim(s) == IF s # <<>> /\ IsSpace(s[Len(s)]) THEN RTrim(SubSeq(s, 1, Len(s) - 1))
            ELSE s

\* strbuf_ltrim
RECURSIVE LTrim(_)
LTrim(s) == IF s # <<>> /\ IsSpace(Head(s)) THEN LTrim(Tail(s)) ELSE s

\* strbuf_trim
Trim(s) == LTrim(RTrim(s))

\* starts_with / skip_prefix
StartsWith(s, k) == Len(s) >= Len(k) /\ SubSeq(s, 1, Len(k)) = k

SkipPrefix(s, k) == SubSeq(s, Len(k) + 1, Len(s))

\* position of the first "\n" of s, 0 when there is none
NlPos(s) == IF \E i \in 1..Len(s) : s[i] = "\n"
            THEN CHOOSE i \in 1..Len(s) :
                     s[i] = "\n" /\ \A j \in 1..(i - 1) : s[j] # "\n"
            ELSE 0

\* the lines strbuf_getline(sb, fp, '\n') returns until EOF, terminators removed
RECURSIVE Lines(_)
Lines(s) == IF s = <<>> THEN <<>>
            ELSE IF NlPos(s) = 0 THEN <<s>>
            ELSE <<SubSeq(s, 1, NlPos(s) - 1)>> \o Lines(SubSeq(s, NlPos(s) + 1, Len(s)))

\* linelen: the length of the first line of msg
linelen(msg) == IF NlPos(msg) = 0 THEN Len(msg) ELSE NlPos(msg) - 1

\* open(O_WRONLY | O_CREAT) without O_TRUNC, then a write of `new` at offset 0:
\* the bytes of an existing longer file beyond Len(new) stay
WriteNoTrunc(old, new) ==
    IF old = ENOENT THEN new
    ELSE new \o SubSeq(old, Len(new) + 1, Len(old))

\* open(O_CREAT | O_TRUNC) (write_file, fopen "w"): the file is exactly `new`
WriteTrunc(old, new) == new

(* -------------------------------------------------- author-script codec *)

\* sq_quote_buf (quote.c): the value wrapped in '...', every embedded '
\* written as '\''
RECURSIVE SqEscape(_)
SqEscape(s) ==
    IF s = <<>> THEN <<>>
    ELSE (IF Head(s) = "'" THEN <<"'", "\\", "'", "'">> ELSE <<Head(s)>>)
         \o SqEscape(Tail(s))

sq_quote_buf(s) == <<"'">> \o SqEscape(s) \o <<"'">>

\* the body of sq_dequote after the opening quote: NULL unless the rest is a
\* single shell single-quoted string using only the '\'' convention
RECURSIVE SqBody(_, _)
SqBody(s, acc) ==
    IF s = <<>> THEN NULL
    ELSE IF Head(s) # "'" THEN SqBody(Tail(s), acc \o <<Head(s)>>)
    ELSE IF Tail(s) = <<>> THEN acc
    ELSE IF Len(s) >= 4 /\ s[2] = "\\" /\ s[3] = "'" /\ s[4] = "'"
         THEN SqBody(SubSeq(s, 5, Len(s)), acc \o <<"'">>)
    ELSE NULL

\* sq_dequote (quote.c)
sq_dequote(s) == IF s = <<>> \/ Head(s) # "'" THEN NULL ELSE SqBody(Tail(s), <<>>)

KEY_NAME == <<"G", "I", "T", "_", "A", "U", "T", "H", "O", "R", "_", "N", "A", "M",
      "E">>

KEY_EMAIL == <<"G", "I", "T", "_", "A", "U", "T", "H", "O", "R", "_", "E", "M", "A",
      "I", "L">>

KEY_DATE == <<"G", "I", "T", "_", "A", "U", "T", "H", "O", "R", "_", "D", "A", "T",
      "E">>

\* the unread rest of a stream after one strbuf_getline
AfterLine(s) == IF NlPos(s) = 0 THEN <<>> ELSE SubSeq(s, NlPos(s) + 1, Len(s))

\* the line one strbuf_getline reads from a stream that is not at EOF
FirstLine(s) == IF NlPos(s) = 0 THEN s ELSE SubSeq(s, 1, NlPos(s) - 1)

\* read_shell_var: the dequoted VALUE of the next line KEY='VALUE' of the
\* stream s, NULL on any failure
read_shell_var(s, key) ==
    IF s = <<>> THEN NULL
    ELSE IF ~StartsWith(FirstLine(s), key) THEN NULL
    ELSE IF ~StartsWith(SkipPrefix(FirstLine(s), key), <<"=">>) THEN NULL
    ELSE sq_dequote(SkipPrefix(SkipPrefix(FirstLine(s), key), <<"=">>))

\* read_author_script that does not look for bytes after the third line
read_author_script_NoEOF(f) ==
    LET none == [author_name |-> NULL, author_email |-> NULL, author_date |-> NULL]
        n == read_shell_var(f, KEY_NAME)
        e == read_shell_var(AfterLine(f), KEY_EMAIL)
        d == read_shell_var(AfterLine(AfterLine(f)), KEY_DATE)
    IN  IF f = ENOENT THEN [ret |-> 0] @@ none
        ELSE IF n = NULL THEN [ret |-> -1] @@ none
        ELSE IF e = NULL THEN [ret |-> -1] @@ [none EXCEPT !.author_name = n]
        ELSE IF d = NULL
             THEN [ret |-> -1] @@ [none EXCEPT !.author_name = n, !.author_email = e]
        ELSE [ret |-> 0, author_name |-> n, author_email |-> e, author_date |-> d]

\* read_author_script on the contents of the file (ENOENT: no file): the
\* return value and the three fields as the function leaves them
read_author_script(f) ==
    LET none == [author_name |-> NULL, author_email |-> NULL, author_date |-> NULL]
        s2 == AfterLine(f)
        s3 == AfterLine(s2)
        s4 == AfterLine(s3)
        n == read_shell_var(f, KEY_NAME)
        e == read_shell_var(s2, KEY_EMAIL)
        d == read_shell_var(s3, KEY_DATE)
    IN  IF f = ENOENT THEN [ret |-> 0] @@ none
        ELSE IF n = NULL THEN [ret |-> -1] @@ none
        ELSE IF e = NULL THEN [ret |-> -1] @@ [none EXCEPT !.author_name = n]
        ELSE IF d = NULL
             THEN [ret |-> -1] @@ [none EXCEPT !.author_name = n, !.author_email = e]
        ELSE [ret |-> IF s4 # <<>> THEN -1 ELSE 0,
              author_name |-> n, author_email |-> e, author_date |-> d]

\* write_author_script: the bytes written to "author-script"
write_author_script(name, email, date) ==
    KEY_NAME \o <<"=">> \o sq_quote_buf(name) \o <<"\n">>
    \o KEY_EMAIL \o <<"=">> \o sq_quote_buf(email) \o <<"\n">>
    \o KEY_DATE \o <<"=">> \o sq_quote_buf(date) \o <<"\n">>

(* ------------------------------------------------------ mails, mailinfo *)

PineName == <<"M", "a", "i", "l", " ", "S", "y", "s", "t", "e", "m", " ", "I", "n",
      "t", "e", "r", "n", "a", "l", " ", "D", "a", "t", "a">>

PfxSubject == <<"S", "u", "b", "j", "e", "c", "t", ":", " ">>

PfxAuthor == <<"A", "u", "t", "h", "o", "r", ":", " ">>

PfxEmail == <<"E", "m", "a", "i", "l", ":", " ">>

PfxDate == <<"D", "a", "t", "e", ":", " ">>

\* The raw messages the splitter can write.  A message is given by what it
\* carries: its From name and address, Subject, Date (NULL: no such header),
\* its body text and its diff (empty: the message carries no diff).
MailFull ==
    [name |-> <<"A">>, email |-> <<"a">>, subject |-> <<"S", "S">>,
     date |-> <<"D">>, body |-> <<"b", " ", "\n">>, diff |-> <<"+">>]

MailNoDate ==
    [name |-> <<"B">>, email |-> <<"b">>, subject |-> <<"T">>,
     date |-> NULL, body |-> <<"c", "\n">>, diff |-> <<"+">>]

MailPine ==
    [name |-> PineName, email |-> <<"m">>, subject |-> <<"P">>,
     date |-> NULL, body |-> <<"\n">>, diff |-> <<>>]

MailPineDiff ==
    [name |-> PineName, email |-> <<"m">>, subject |-> <<"P">>,
     date |-> NULL, body |-> <<"\n">>, diff |-> <<"+">>]

MailNoDiff ==
    [name |-> <<"A">>, email |-> <<"a">>, subject |-> <<"S", "S">>,
     date |-> <<"D">>, body |-> <<"b", " ", "\n">>, diff |-> <<>>]

MailNoFrom ==
    [name |-> NULL, email |-> NULL, subject |-> <<"U">>,
     date |-> <<"D">>, body |-> <<"d", "\n">>, diff |-> <<"+">>]

Mails == {MailFull, MailNoDate, MailPine, MailPineDiff, MailNoDiff, MailNoFrom}

\* what git mailinfo prints on its standard output for a message: one line
\* per header the message has, then an empty line
MailinfoStdout(m) ==
    (IF m.name = NULL THEN <<>>
     ELSE PfxAuthor \o m.name \o <<"\n">> \o PfxEmail \o m.email \o <<"\n">>)
    \o (IF m.subject = NULL THEN <<>> ELSE PfxSubject \o m.subject \o <<"\n">>)
    \o (IF m.date = NULL THEN <<>> ELSE PfxDate \o m.date \o <<"\n">>)
    \o <<"\n">>

\* the loop of parse_mail over the lines of "info": Subject lines are joined
\* with "\n" into msg, Author, Email and Date values are appended to their
\* buffers, other lines are ignored
RECURSIVE HarvestLines(_, _)
HarvestLines(lines, acc) ==
    IF lines = <<>> THEN acc
    ELSE LET l == Head(lines)
             nxt == IF StartsWith(l, PfxSubject)
                    THEN [acc EXCEPT !.msg = (IF acc.msg # <<>> THEN acc.msg \o <<"\n">>
                                              ELSE acc.msg) \o SkipPrefix(l, PfxSubject)]
                    ELSE IF StartsWith(l, PfxAuthor)
                    THEN [acc EXCEPT !.author_name = @ \o SkipPrefix(l, PfxAuthor)]
                    ELSE IF StartsWith(l, PfxEmail)
                    THEN [acc EXCEPT !.author_email = @ \o SkipPrefix(l, PfxEmail)]
                    ELSE IF StartsWith(l, PfxDate)
                    THEN [acc EXCEPT !.author_date = @ \o SkipPrefix(l, PfxDate)]
                    ELSE acc
         IN  HarvestLines(Tail(lines), nxt)

\* the four local buffers of parse_mail after reading the file "info"
Harvest(info) ==
    HarvestLines(Lines(info),
                 [msg |-> <<>>, author_name |-> <<>>, author_email |-> <<>>,
                  author_date |-> <<>>])

\* stripspace(sb, 0) (strbuf.c): trailing whitespace of every line removed,
\* runs of empty lines collapsed to one, leading and trailing empty lines
\* removed, every line terminated by "\n"
RECURSIVE StripLines(_, _, _)
StripLines(lines, out, pending) ==
    IF lines = <<>> THEN out
    ELSE IF RTrim(Head(lines)) = <<>> THEN StripLines(Tail(lines), out, out # <<>>)
    ELSE StripLines(Tail(lines),
                    out \o (IF pending THEN <<"\n">> ELSE <<>>)
                        \o RTrim(Head(lines)) \o <<"\n">>,
                    FALSE)

stripspace(s) == StripLines(Lines(s), <<>>, FALSE)

\* the commit message parse_mail composes: the Subject lines, "\n\n", the
\* contents of the file "msg", stripspace'd
ComposeMsg(subjects, msgfile) == stripspace(subjects \o <<"\n", "\n">> \o msgfile)

\* is_empty_file: 1 if the file is empty or does not exist
is_empty_file(f) == f = ENOENT \/ f = <<>>

\* fmt_ident(name, email, date, IDENT_STRICT) (ident.c): dies on an empty name
IdentRejected(name) == name = <<>>

(* ------------------------------------------------------------- the state *)

\* the invocations of the tool that can exist side by side
Procs == {1, 2}

VARIABLES
    pc,      \* pc[p]: where invocation p is in cmd_am ("idle": no process)
    state,   \* state[p]: its struct am_state
    loc,     \* loc[p]: the locals of do_commit (ptr, commit)
    arg,     \* arg[p]: --patch-format and the paths it was given
    exit,    \* exit[p]: how the last process of p ended
    disk,    \* the session directory .git/rebase-apply
    repo,    \* HEAD, the object store and the index
    log,     \* history: what the invocations did, in order
    ghost,   \* history: snapshots taken at the entry of a run and of an iteration
    runs,    \* the number of invocations so far
    conc,    \* whether invocations may overlap
    mbox     \* the messages in the files the paths name

vars == <<pc, state, loc, arg, exit, disk, repo, log, ghost, runs, conc, mbox>>

\* the session directory when it does not exist (history: sid is the number
\* of the invocation whose am_setup made the directory, author_script_n and
\* final_commit_n the patches the two files were last written for)
NoDir ==
    [dir |-> FALSE, next |-> ENOENT, last |-> ENOENT, author_script |-> ENOENT,
     final_commit |-> ENOENT, info |-> ENOENT, msg |-> ENOENT, patch |-> ENOENT,
     mails |-> {}, sid |-> 0, author_script_n |-> 0, final_commit_n |-> 0]

\* am_state_init: memset 0 (dir and prec are fixed)
am_state_init ==
    [cur |-> 0, last |-> 0, author_name |-> NULL, author_email |-> NULL,
     author_date |-> NULL, msg |-> NULL]

\* the commit object ids: 0 is "no commit" (an unborn HEAD, a NULL ptr)
NoCommit == 0

\* the commit HEAD names in a repository with history (history: sid and n
\* are the session and the patch a commit was written for)
RootCommit ==
    [parents |-> <<>>, author_name |-> <<"R">>, author_email |-> <<"r">>,
     author_date |-> <<"D">>, msg |-> <<"r", "\n">>, tree |-> <<>>,
     sid |-> 0, n |-> 0]

\* the paths of the command line as detect_patch_format sees them: what the
\* first path is ("none": the list is empty; "-"; "dir": a directory;
\* "file") and the bytes of the file it names
NoPaths == [first |-> "none", file |-> <<>>]

NoArg == [patch_format |-> PATCH_FORMAT_UNKNOWN, paths |-> NoPaths]

NoExit == [code |-> 0, cause |-> "none", at |-> 0, pc |-> "idle"]

\* the labels of am_setup
SetupPcs == {"setup", "split", "split_failed", "write_next", "write_last"}

NoGhost ==
    [prev |-> NoExit, loaded |-> FALSE, head0 |-> NoCommit, objs0 |-> 0, cur0 |-> 0,
     iterHead |-> NoCommit, iterObjs |-> 0, iterState |-> am_state_init,
     iterDisk |-> NoDir]

\* the paths an invocation can be given: none (standard input), a file
\* that does not look like mail
Paths ==
    {NoPaths,
     [first |-> "file", file |-> <<"h", "i", "\n">>]}

\* the inputs: up to MaxPatches messages, of which the splitter leaves a file
\* for the numbers in `kept` (a number without a file holds MailFull)
Mboxes ==
    {[mails |-> ms, kept |-> k] :
        <<ms, k>> \in {x \in (UNION {[1..n -> Mails] : n \in 0..MaxPatches})
                               \X (SUBSET (1..MaxPatches)) :
                          /\ x[2] \subseteq 1..Len(x[1])
                          /\ \A i \in 1..Len(x[1]) : i \notin x[2] => x[1][i] = MailFull}}

\* am_in_progress: the directory, then "last", then "next"
am_in_progress(d) == d.dir /\ d.last # ENOENT /\ d.next # ENOENT

\* msgnum: the file name of patch n
msgnum(n) == FmtPad(prec, n)

\* am_run that does not test for the mail file
file_exists_Always(d, name) == TRUE

\* file_exists(am_path(state, name)) for a mail file
file_exists(d, name) == d.dir /\ \E e \in d.mails : e[1] = name

\* xopen(mail, O_RDONLY) succeeds
CanOpen(d, name) == d.dir /\ \E e \in d.mails : e[1] = name

\* the raw message stored in the mail file `name`
MailFile(d, name) == (CHOOSE e \in d.mails : e[1] = name)[2]

\* strbuf_getline_crlf on the unread bytes s of a stream that is not at
\* EOF: the line without its "\n" or "\r\n"
GetlineCrlf(s) ==
    LET whole == IF NlPos(s) = 0 THEN s ELSE SubSeq(s, 1, NlPos(s))
        cut == IF whole[Len(whole)] = "\n" THEN SubSeq(whole, 1, Len(whole) - 1)
               ELSE whole
    IN  IF whole[Len(whole)] = "\n" /\ Len(cut) > 0 /\ cut[Len(cut)] = "\r"
        THEN SubSeq(cut, 1, Len(cut) - 1)
        ELSE cut

\* the bytes of the files read here that are in [!-9;-~] of header_regex
\* (printable, not the space, not ":")
HeaderNameBytes ==
    {"F", "r", "o", "m", "a", "b", "x", "h", "i", "-", "="}

\* regexec of "^[!-9;-~]+:" on a line: 0 (a match) or REG_NOMATCH
RECURSIVE HeaderRegexFrom(_, _)
HeaderRegexFrom(l, k) ==
    IF k > Len(l) THEN FALSE
    ELSE IF l[k] = ":" THEN k > 1
    ELSE IF l[k] \in HeaderNameBytes THEN HeaderRegexFrom(l, k + 1)
    ELSE FALSE

\* is_mail after its fseek(fp, 0L, SEEK_SET), on the unread bytes s
RECURSIVE IsMailFrom(_)
IsMailFrom(s) ==
    IF s = <<>> THEN 1
    ELSE LET sb == GetlineCrlf(s)
         IN  IF Len(sb) = 0 THEN 1
             ELSE IF sb[1] \in {"\t", " "} THEN IsMailFrom(AfterLine(s))
             ELSE IF ~HeaderRegexFrom(sb, 1) THEN 0
             ELSE IsMailFrom(AfterLine(s))

\* is_mail: the stream is rewound to the start of the file first
is_mail(f) == IsMailFrom(f)

\* the loop of detect_patch_format that reads l1: the first line that is not
\* empty, or the empty buffer of the read that met EOF
RECURSIVE FirstNonBlank(_)
FirstNonBlank(s) ==
    IF s = <<>> THEN <<>>
    ELSE IF Len(GetlineCrlf(s)) > 0 THEN GetlineCrlf(s)
    ELSE FirstNonBlank(AfterLine(s))

\* detect_patch_format: Mbox for no path, "-" and a directory; else by the
\* first non-blank line of the first file, else by is_mail
detect_patch_format(paths) ==
    IF paths.first \in {"none", "-", "dir"} THEN PATCH_FORMAT_MBOX
    ELSE LET l1 == FirstNonBlank(paths.file)
         IN  IF StartsWith(l1, <<"F", "r", "o", "m", " ">>)
                \/ StartsWith(l1, <<"F", "r", "o", "m", ":", " ">>)
             THEN PATCH_FORMAT_MBOX
             ELSE IF Len(l1) > 0 /\ is_mail(paths.file) = 1 THEN PATCH_FORMAT_MBOX
             ELSE PATCH_FORMAT_UNKNOWN

\* am_destroy: remove_dir_recursively on the session directory
am_destroy(d) == NoDir

\* process p is at label l
At(p, l) == pc[p] = l

Goto(p, l) == pc' = [pc EXCEPT ![p] = l]

\* the process of p ends: exit(code), die() (128) or abort() (134); its
\* memory is still shown at "done" and gone once the exit is reaped
Ends(p, code, cause) ==
    /\ pc' = [pc EXCEPT ![p] = "done"]
    /\ exit' = [exit EXCEPT ![p] =
                   [code |-> code, cause |-> cause, at |-> state[p].cur, pc |-> pc[p]]]

Logged(p, op, n) == log' = Append(log, [p |-> p, op |-> op, n |-> n])

Init ==
    /\ pc = [p \in Procs |-> "idle"]
    /\ state = [p \in Procs |-> am_state_init]
    /\ loc = [p \in Procs |-> [ptr |-> NoCommit, commit |-> NoCommit]]
    /\ arg = [p \in Procs |-> NoArg]
    /\ exit = [p \in Procs |-> NoExit]
    /\ disk = NoDir
    /\ \E born \in BOOLEAN :
           repo = [HEAD |-> IF born THEN 1 ELSE NoCommit,
                   objects |-> IF born THEN <<RootCommit>> ELSE <<>>,
                   index |-> <<>>]
    /\ log = <<>>
    /\ ghost = [p \in Procs |-> NoGhost]
    /\ runs = 0
    /\ conc = FALSE
    /\ mbox \in Mboxes

(* ---------------------------------------------------------------- cmd_am *)

\* cmd_am that runs am_setup whether or not a session is in progress
Entry_Setup(in_progress) == "setup"

\* cmd_am: am_load when a session is in progress, am_setup otherwise
Entry(in_progress) == IF in_progress THEN "load_next" ELSE "setup"

\* cmd_am up to the branch on am_in_progress: a new process with a fresh
\* am_state; it loads the session in progress or sets a new one up
Invoke(p, fmt, paths) ==
    /\ At(p, "idle")
    /\ runs < MaxRuns
    /\ p = 1 \/ conc
    /\ runs' = runs + 1
    /\ Goto(p, Entry(am_in_progress(disk)))
    /\ state' = [state EXCEPT ![p] = am_state_init]
    /\ arg' = [arg EXCEPT ![p] = IF am_in_progress(disk) THEN NoArg
                                 ELSE [patch_format |-> fmt, paths |-> paths]]
    /\ exit' = [exit EXCEPT ![p] = [NoExit EXCEPT !.cause = "running"]]
    /\ ghost' = [ghost EXCEPT ![p] =
                    [NoGhost EXCEPT !.prev = [exit[p] EXCEPT !.pc = "idle"],
                                    !.loaded = am_in_progress(disk),
                                    !.head0 = repo.HEAD,
                                    !.objs0 = Len(repo.objects)]]
    /\ UNCHANGED <<loc, disk, repo, log, conc, mbox>>

\* the exit status has been collected: nothing of the process is left
Reap(p) ==
    /\ At(p, "done")
    /\ Goto(p, "idle")
    /\ state' = [state EXCEPT ![p] = am_state_init]
    /\ loc' = [loc EXCEPT ![p] = [ptr |-> NoCommit, commit |-> NoCommit]]
    /\ arg' = [arg EXCEPT ![p] = NoArg]
    /\ log' = SelectSeq(log, LAMBDA e : e.p # p)
    /\ ghost' = [ghost EXCEPT ![p] = NoGhost]
    /\ UNCHANGED <<exit, disk, repo, runs, conc, mbox>>

(* -------------------------------------------------------------- am_setup *)

\* the format am_setup works with: the one given, else the one detected
SetupFormat(a) ==
    IF a.patch_format # PATCH_FORMAT_UNKNOWN THEN a.patch_format
    ELSE detect_patch_format(a.paths)

\* am_setup, detection failed: exit(128) before anything is created
SetupDetectFail(p) ==
    /\ At(p, "setup")
    /\ SetupFormat(arg[p]) = PATCH_FORMAT_UNKNOWN
    /\ Ends(p, 128, "detect")
    /\ UNCHANGED <<state, loc, arg, disk, repo, log, ghost, runs, conc, mbox>>

\* am_setup: mkdir(state->dir), EEXIST tolerated
SetupMkdir(p) ==
    /\ At(p, "setup")
    /\ SetupFormat(arg[p]) # PATCH_FORMAT_UNKNOWN
    /\ disk' = [disk EXCEPT !.dir = TRUE, !.sid = runs]
    /\ Goto(p, "split")
    /\ UNCHANGED <<state, loc, arg, exit, repo, log, ghost, runs, conc, mbox>>

\* the mail files git mailsplit -d<prec> -o<dir> writes for the messages ms:
\* <dir>/0001 ... named by number, over whatever the directory holds; no
\* file is left for the numbers not in `kept`
Mailsplit(d, ms, kept) ==
    [d EXCEPT !.mails =
        {e \in d.mails : \A i \in 1..Len(ms) : e[1] # FmtPad(prec, i)}
        \cup {<<FmtPad(prec, i), ms[i]>> : i \in kept}]

\* what mailsplit prints: the number of the last mail it wrote
MailsplitStdout(ms) == FmtD(Len(ms)) \o <<"\n">>

\* split_mail_mbox, mailsplit succeeded: cur = 1, last = strtol(its output)
SplitMail(p) ==
    /\ At(p, "split")
    /\ disk.dir
    /\ disk' = Mailsplit(disk, mbox.mails, mbox.kept)
    /\ state' = [state EXCEPT ![p].cur = 1,
                              ![p].last = Strtol(MailsplitStdout(mbox.mails))]
    /\ arg' = [arg EXCEPT ![p] = NoArg]
    /\ Goto(p, "write_next")
    /\ UNCHANGED <<loc, exit, repo, log, ghost, runs, conc, mbox>>

\* split_mail_mbox, mailsplit failed (possibly after writing a mail): -1
SplitMailFail(p) ==
    /\ At(p, "split")
    /\ \E n \in {0, Len(mbox.mails)} :
           disk' = IF disk.dir
                   THEN Mailsplit(disk, SubSeq(mbox.mails, 1, n), mbox.kept \cap (1..n))
                   ELSE disk
    /\ arg' = [arg EXCEPT ![p] = NoArg]
    /\ Goto(p, "split_failed")
    /\ UNCHANGED <<state, loc, exit, repo, log, ghost, runs, conc, mbox>>

\* am_setup that dies on a failed split without am_destroy
SplitFailDisk_Keep(d) == d

\* the session directory after am_setup saw split_mail fail
SplitFailDisk(d) == am_destroy(d)

\* am_setup on a failed split: am_destroy, then die
SetupRollback(p) ==
    /\ At(p, "split_failed")
    /\ disk' = SplitFailDisk(disk)
    /\ Ends(p, 128, "split")
    /\ UNCHANGED <<state, loc, arg, repo, log, ghost, runs, conc, mbox>>

\* am_setup that writes "last" first
SetupWriteFirst_Last(d, st) == [d EXCEPT !.last = WriteTrunc(@, FmtD(st.last))]

\* the first file am_setup writes after the split: "next", "%d" of cur
SetupWriteFirst(d, st) == [d EXCEPT !.next = WriteTrunc(@, FmtD(st.cur))]

\* the second file am_setup writes after the split: "last", "%d" of last
SetupWriteSecond(d, st) == [d EXCEPT !.last = WriteTrunc(@, FmtD(st.last))]

\* write_file(..., 1, ...) dies when the file cannot be created
SetupWriteNext(p) ==
    /\ At(p, "write_next")
    /\ IF disk.dir
       THEN /\ disk' = SetupWriteFirst(disk, state[p])
            /\ Goto(p, "write_last")
            /\ UNCHANGED exit
       ELSE /\ Ends(p, 128, "io")
            /\ UNCHANGED disk
    /\ UNCHANGED <<state, loc, arg, repo, log, ghost, runs, conc, mbox>>

SetupWriteLast(p) ==
    /\ At(p, "write_last")
    /\ IF disk.dir
       THEN /\ disk' = SetupWriteSecond(disk, state[p])
            /\ Goto(p, "loop")
            /\ ghost' = [ghost EXCEPT ![p].cur0 = state[p].cur]
            /\ UNCHANGED exit
       ELSE /\ Ends(p, 128, "io")
            /\ UNCHANGED <<disk, ghost>>
    /\ UNCHANGED <<state, loc, arg, repo, log, runs, conc, mbox>>

(* --------------------------------------------------------------- am_load *)

\* read_state_file(..., trim = 1) of a file that exists
ReadTrimmed(f) == Trim(f)

\* am_load that restarts at the first patch
LoadCur_First(d) == 1

\* the cur am_load reads from "next"
LoadCur(d) == Strtol(ReadTrimmed(d.next))

\* the last am_load reads from "last"
LoadLast(d) == Strtol(ReadTrimmed(d.last))

\* am_load: "next" into cur; die("BUG: ...") when it does not exist
LoadNext(p) ==
    /\ At(p, "load_next")
    /\ IF disk.next # ENOENT
       THEN /\ state' = [state EXCEPT ![p].cur = LoadCur(disk)]
            /\ Goto(p, "load_last")
            /\ UNCHANGED exit
       ELSE /\ Ends(p, 128, "bug")
            /\ UNCHANGED state
    /\ UNCHANGED <<loc, arg, disk, repo, log, ghost, runs, conc, mbox>>

\* am_load: "last" into last
LoadLastFile(p) ==
    /\ At(p, "load_last")
    /\ IF disk.last # ENOENT
       THEN /\ state' = [state EXCEPT ![p].last = LoadLast(disk)]
            /\ Goto(p, "load_author")
            /\ UNCHANGED exit
       ELSE /\ Ends(p, 128, "bug")
            /\ UNCHANGED state
    /\ UNCHANGED <<loc, arg, disk, repo, log, ghost, runs, conc, mbox>>

\* am_load: read_author_script, die when it cannot be parsed
LoadAuthor(p) ==
    /\ At(p, "load_author")
    /\ LET r == read_author_script(disk.author_script)
       IN  /\ state' = [state EXCEPT ![p].author_name = r.author_name,
                                     ![p].author_email = r.author_email,
                                     ![p].author_date = r.author_date]
           /\ IF r.ret < 0
              THEN Ends(p, 128, "authorscript")
              ELSE Goto(p, "load_msg") /\ UNCHANGED exit
    /\ UNCHANGED <<loc, arg, disk, repo, log, ghost, runs, conc, mbox>>

\* am_load: read_commit_msg, "final-commit" into msg when it exists
LoadMsg(p) ==
    /\ At(p, "load_msg")
    /\ state' = [state EXCEPT ![p].msg =
                    IF disk.final_commit # ENOENT THEN disk.final_commit ELSE NULL]
    /\ ghost' = [ghost EXCEPT ![p].cur0 = state[p].cur]
    /\ Goto(p, "loop")
    /\ UNCHANGED <<loc, arg, exit, disk, repo, log, runs, conc, mbox>>

(* ---------------------------------------------------------------- am_run *)

\* the head of the while loop of am_run: done, or the mail of patch cur is
\* looked up (missing: straight to am_next)
RunLoop(p) ==
    /\ At(p, "loop")
    /\ Goto(p, IF state[p].cur > state[p].last THEN "destroy"
               ELSE IF ~file_exists(disk, msgnum(state[p].cur)) THEN "next_clear"
               ELSE "mailinfo")
    /\ IF state[p].cur > state[p].last THEN UNCHANGED <<log, ghost>>
       ELSE /\ Logged(p, "touch", state[p].cur)
            /\ ghost' = [ghost EXCEPT ![p].iterHead = repo.HEAD,
                                      ![p].iterObjs = Len(repo.objects),
                                      ![p].iterState = state[p],
                                      ![p].iterDisk = disk]
    /\ UNCHANGED <<state, loc, arg, exit, disk, repo, runs, conc, mbox>>

\* parse_mail, the child: git mailinfo reads the mail, writes "msg" and
\* "patch" anew, and its standard output goes to "info", which parse_mail
\* opened with O_WRONLY | O_CREAT
RunMailinfo(d, m) ==
    [d EXCEPT !.info = WriteNoTrunc(@, MailinfoStdout(m)),
              !.msg = WriteTrunc(@, m.body),
              !.patch = WriteTrunc(@, m.diff)]

ParseMailinfo(p) ==
    /\ At(p, "mailinfo")
    /\ IF CanOpen(disk, msgnum(state[p].cur))
       THEN /\ disk' = RunMailinfo(disk, MailFile(disk, msgnum(state[p].cur)))
            /\ Logged(p, "parse", state[p].cur)
            /\ Goto(p, "harvest")
            /\ UNCHANGED exit
       ELSE /\ Ends(p, 128, "io")
            /\ UNCHANGED <<disk, log>>
    /\ UNCHANGED <<state, loc, arg, repo, ghost, runs, conc, mbox>>

\* parse_mail that tests for an empty patch before it tests for pine's data
ParseVerdict_EmptyFirst(h, patchfile) ==
    IF is_empty_file(patchfile) THEN "empty"
    ELSE IF h.author_name = PineName THEN "skip"
    ELSE "keep"

\* parse_mail after reading "info": skip pine's folder data, else stop on an
\* empty patch, else keep
ParseVerdict(h, patchfile) ==
    IF h.author_name = PineName THEN "skip"
    ELSE IF is_empty_file(patchfile) THEN "empty"
    ELSE "keep"

\* parse_mail that destroys the session on an empty patch
EmptyPatchDisk_Destroy(d) == am_destroy(d)

\* the session directory after parse_mail found the patch empty: exit(128)
\* and nothing else
EmptyPatchDisk(d) == d

\* the four assertions of parse_mail hold
ParseAsserts(st) ==
    /\ st.author_name = NULL
    /\ st.author_email = NULL
    /\ st.author_date = NULL
    /\ st.msg = NULL

\* parse_mail, the rest: harvest "info"; return 1 (skip), exit(128) (empty
\* patch), abort on a failed assertion, or store the four results
ParseHarvest(p) ==
    /\ At(p, "harvest")
    /\ LET h == Harvest(disk.info)
           v == IF disk.info = ENOENT THEN "io" ELSE ParseVerdict(h, disk.patch)
       IN  IF v = "io" THEN /\ Ends(p, 128, "io")
                            /\ UNCHANGED <<state, log, disk>>
           ELSE IF v = "skip" THEN /\ Goto(p, "next_clear")
                                   /\ Logged(p, "skip", state[p].cur)
                                   /\ UNCHANGED <<state, exit, disk>>
           ELSE IF v = "empty" THEN /\ Ends(p, 128, "emptypatch")
                                    /\ disk' = EmptyPatchDisk(disk)
                                    /\ UNCHANGED <<state, log>>
           ELSE IF ~ParseAsserts(state[p]) THEN /\ Ends(p, 134, "assert")
                                                /\ UNCHANGED <<state, log, disk>>
           ELSE /\ UNCHANGED disk
                /\ state' = [state EXCEPT
                                ![p].author_name = h.author_name,
                                ![p].author_email = h.author_email,
                                ![p].author_date = h.author_date,
                                ![p].msg = ComposeMsg(h.msg, disk.msg)]
                /\ Goto(p, "write_author")
                /\ UNCHANGED <<exit, log>>
    /\ UNCHANGED <<loc, arg, repo, ghost, runs, conc, mbox>>

\* write_author_script: write_file of the three quoted assignments
WriteAuthorScript(p) ==
    /\ At(p, "write_author")
    /\ IF disk.dir
       THEN /\ disk' = [disk EXCEPT !.author_script =
                           WriteTrunc(@, write_author_script(state[p].author_name,
                                                             state[p].author_email,
                                                             state[p].author_date)),
                                        !.author_script_n = state[p].cur]
            /\ Logged(p, "wauthor", state[p].cur)
            /\ Goto(p, "write_msg")
            /\ UNCHANGED exit
       ELSE /\ Ends(p, 128, "io")
            /\ UNCHANGED <<disk, log>>
    /\ UNCHANGED <<state, loc, arg, repo, ghost, runs, conc, mbox>>

\* write_commit_msg: xopen(O_WRONLY | O_CREAT), write_in_full of msg
WriteCommitMsg(p) ==
    /\ At(p, "write_msg")
    /\ IF disk.dir
       THEN /\ disk' = [disk EXCEPT !.final_commit = WriteNoTrunc(@, state[p].msg),
                                    !.final_commit_n = state[p].cur]
            /\ Logged(p, "wmsg", state[p].cur)
            /\ Goto(p, "apply")
            /\ UNCHANGED exit
       ELSE /\ Ends(p, 128, "io")
            /\ UNCHANGED <<disk, log>>
    /\ UNCHANGED <<state, loc, arg, repo, ghost, runs, conc, mbox>>

\* am_run that goes from run_apply to am_next
AfterApply_Next == "next_clear"

\* am_run after run_apply returned 0: do_commit
AfterApply == "commit_lookup"

\* run_apply returned 0: git apply --index changed the index
RunApply(p) ==
    /\ At(p, "apply")
    /\ disk.patch # ENOENT
    /\ repo' = [repo EXCEPT !.index = Append(@, disk.patch)]
    /\ Logged(p, "apply", state[p].cur)
    /\ Goto(p, AfterApply)
    /\ UNCHANGED <<state, loc, arg, exit, disk, ghost, runs, conc, mbox>>

\* the session directory after am_run saw run_apply fail
ApplyFailDisk(d) == d

\* run_apply returned -1: am_run prints its advice and exit(128)
RunApplyFail(p) ==
    /\ At(p, "apply")
    /\ disk' = ApplyFailDisk(disk)
    /\ Logged(p, "applyfail", state[p].cur)
    /\ Ends(p, 128, "applyfail")
    /\ UNCHANGED <<state, loc, arg, repo, ghost, runs, conc, mbox>>

(* ------------------------------------------------------------- do_commit *)

\* do_commit: get_sha1_commit("HEAD"); ptr is the parent, or NULL
CommitLookup(p) ==
    /\ At(p, "commit_lookup")
    /\ loc' = [loc EXCEPT ![p] = [ptr |-> repo.HEAD, commit |-> NoCommit]]
    /\ Goto(p, "commit_tree")
    /\ UNCHANGED <<state, arg, exit, disk, repo, log, ghost, runs, conc, mbox>>

\* do_commit that never records a parent
CommitParents_None(ptr) == <<>>

\* the parent list do_commit builds from what it looked up
CommitParents(ptr) == IF ptr = NoCommit THEN <<>> ELSE <<ptr>>

\* do_commit: fmt_ident in strict mode, then commit_tree writes the object
CommitTree(p) ==
    /\ At(p, "commit_tree")
    /\ IF IdentRejected(state[p].author_name)
       THEN /\ Ends(p, 128, "ident")
            /\ UNCHANGED <<loc, repo>>
       ELSE /\ repo' = [repo EXCEPT !.objects = Append(@,
                           [parents |-> CommitParents(loc[p].ptr),
                            author_name |-> state[p].author_name,
                            author_email |-> state[p].author_email,
                            author_date |-> state[p].author_date,
                            msg |-> state[p].msg,
                            tree |-> repo.index,
                            sid |-> disk.sid,
                            n |-> state[p].cur])]
            /\ loc' = [loc EXCEPT ![p].commit = Len(repo.objects) + 1]
            /\ Goto(p, "commit_ref")
            /\ UNCHANGED exit
    /\ UNCHANGED <<state, arg, disk, log, ghost, runs, conc, mbox>>

\* update_ref(msg, "HEAD", commit, ptr, 0, UPDATE_REFS_DIE_ON_ERR) goes
\* through: HEAD is checked against ptr only when ptr is not NULL
UpdateRefOk(head, ptr) == ptr = NoCommit \/ head = ptr

\* do_commit: update_ref moves HEAD or dies
CommitRef(p) ==
    /\ At(p, "commit_ref")
    /\ IF UpdateRefOk(repo.HEAD, loc[p].ptr)
       THEN /\ repo' = [repo EXCEPT !.HEAD = loc[p].commit]
            /\ Logged(p, "commit", state[p].cur)
            /\ Goto(p, "next_clear")
            /\ UNCHANGED exit
       ELSE /\ Ends(p, 128, "ref")
            /\ UNCHANGED <<repo, log>>
    /\ UNCHANGED <<state, loc, arg, disk, ghost, runs, conc, mbox>>

(* --------------------------------------------------------------- am_next *)

\* am_next that leaves "author-script" where it is
UnlinkAuthorScript_Keep(d) == d

\* unlink(am_path(state, "author-script"))
UnlinkAuthorScript(d) == [d EXCEPT !.author_script = ENOENT, !.author_script_n = 0]

\* unlink(am_path(state, "final-commit"))
UnlinkFinalCommit(d) == [d EXCEPT !.final_commit = ENOENT, !.final_commit_n = 0]

\* am_next: the four fields freed and set to NULL, unlink("author-script")
NextClear(p) ==
    /\ At(p, "next_clear")
    /\ state' = [state EXCEPT ![p].author_name = NULL, ![p].author_email = NULL,
                              ![p].author_date = NULL, ![p].msg = NULL]
    /\ disk' = IF disk.dir THEN UnlinkAuthorScript(disk) ELSE disk
    /\ Goto(p, "next_unlink")
    /\ UNCHANGED <<loc, arg, exit, repo, log, ghost, runs, conc, mbox>>

\* am_next: unlink("final-commit")
NextUnlink(p) ==
    /\ At(p, "next_unlink")
    /\ disk' = IF disk.dir THEN UnlinkFinalCommit(disk) ELSE disk
    /\ Goto(p, "next_write")
    /\ UNCHANGED <<state, loc, arg, exit, repo, log, ghost, runs, conc, mbox>>

\* am_next that does not advance
NextCur_Same(c) == c

\* am_next that advances by two
NextCur_Two(c) == c + 2

\* state->cur++
NextCur(c) == c + 1

\* am_next: cur++, write_file("next", "%d", cur)
NextWrite(p) ==
    /\ At(p, "next_write")
    /\ IF disk.dir
       THEN /\ state' = [state EXCEPT ![p].cur = NextCur(@)]
            /\ disk' = [disk EXCEPT !.next = WriteTrunc(@, FmtD(NextCur(state[p].cur)))]
            /\ Logged(p, "next", state[p].cur)
            /\ Goto(p, "loop")
            /\ UNCHANGED exit
       ELSE /\ Ends(p, 128, "io")
            /\ UNCHANGED <<state, disk, log>>
    /\ UNCHANGED <<loc, arg, repo, ghost, runs, conc, mbox>>

\* am_run after the loop: am_destroy, gc --auto; cmd_am returns 0
RunDestroy(p) ==
    /\ At(p, "destroy")
    /\ disk' = am_destroy(disk)
    /\ Ends(p, 0, "ok")
    /\ UNCHANGED <<state, loc, arg, repo, log, ghost, runs, conc, mbox>>

(* ----------------------------------------------------------- environment *)

\* the process is killed between two steps
Kill(p) ==
    /\ ~At(p, "idle") /\ ~At(p, "done")
    /\ Goto(p, "idle")
    /\ exit' = [exit EXCEPT ![p] =
                   [code |-> 137, cause |-> "killed", at |-> 0,
                    pc |-> IF pc[p] \in SetupPcs THEN "setup" ELSE "run"]]
    /\ state' = [state EXCEPT ![p] = am_state_init]
    /\ loc' = [loc EXCEPT ![p] = [ptr |-> NoCommit, commit |-> NoCommit]]
    /\ arg' = [arg EXCEPT ![p] = NoArg]
    /\ log' = SelectSeq(log, LAMBDA e : e.p # p)
    /\ ghost' = [ghost EXCEPT ![p] = NoGhost]
    /\ UNCHANGED <<disk, repo, runs, conc, mbox>>

Step(p) ==
    \/ \E fmt \in {PATCH_FORMAT_UNKNOWN, PATCH_FORMAT_MBOX}, paths \in Paths :
           Invoke(p, fmt, paths)
    \/ Reap(p)
    \/ SetupDetectFail(p)
    \/ SetupMkdir(p)
    \/ SplitMail(p)
    \/ SplitMailFail(p)
    \/ SetupRollback(p)
    \/ SetupWriteNext(p)
    \/ SetupWriteLast(p)
    \/ LoadNext(p)
    \/ LoadLastFile(p)
    \/ LoadAuthor(p)
    \/ LoadMsg(p)
    \/ RunLoop(p)
    \/ ParseMailinfo(p)
    \/ ParseHarvest(p)
    \/ WriteAuthorScript(p)
    \/ WriteCommitMsg(p)
    \/ RunApply(p)
    \/ RunApplyFail(p)
    \/ CommitLookup(p)
    \/ CommitTree(p)
    \/ CommitRef(p)
    \/ NextClear(p)
    \/ NextUnlink(p)
    \/ NextWrite(p)
    \/ RunDestroy(p)
    \/ Kill(p)

Next == \E p \in Procs : Step(p)

Spec == Init /\ [][Next]_vars

\* the user edits "author-script" of a session nobody is running: the last
\* line lost, or a line added after the third
HandEdit ==
    /\ \A p \in Procs : At(p, "idle")
    /\ am_in_progress(disk)
    /\ read_author_script(disk.author_script).ret = 0
    /\ disk.author_script # ENOENT
    /\ \E f \in {SubSeq(disk.author_script, 1,
                        Len(disk.author_script) - Len(AfterLine(AfterLine(disk.author_script)))),
                 disk.author_script \o <<"x", "\n">>} :
           disk' = [disk EXCEPT !.author_script = f]
    /\ UNCHANGED <<pc, state, loc, arg, exit, repo, log, ghost, runs, conc, mbox>>

NextEdit == Next \/ HandEdit

\* the tool and a user who edits the author-script between invocations
SpecEdit == Init /\ [][NextEdit]_vars

(* ------------------------------------------- two invocations at a time *)

\* two invocations, which may overlap, in a repository with one commit; the
\* input is one patch
InitConc ==
    /\ pc = [p \in Procs |-> "idle"]
    /\ state = [p \in Procs |-> am_state_init]
    /\ loc = [p \in Procs |-> [ptr |-> NoCommit, commit |-> NoCommit]]
    /\ arg = [p \in Procs |-> NoArg]
    /\ exit = [p \in Procs |-> NoExit]
    /\ disk = NoDir
    /\ repo = [HEAD |-> 1, objects |-> <<RootCommit>>, index |-> <<>>]
    /\ log = <<>>
    /\ ghost = [p \in Procs |-> NoGhost]
    /\ runs = 0
    /\ conc = TRUE
    /\ mbox = [mails |-> <<MailFull>>, kept |-> {1}]

SpecConc == InitConc /\ [][Next]_vars

(* ------------------------------------ an invocation and a ref writer *)

\* the commit another writer of refs makes on top of what HEAD names
WriterCommit(head) ==
    [parents |-> CommitParents(head), author_name |-> <<"W">>,
     author_email |-> <<"w">>, author_date |-> <<"D">>, msg |-> <<"w", "\n">>,
     tree |-> <<>>, sid |-> 0, n |-> 0]

\* the other writer has moved HEAD
Written == \E i \in 1..Len(repo.objects) : repo.objects[i].author_name = <<"W">>

\* another process of the repository moves HEAD to a commit of its own,
\* once, at any moment
OtherWriter ==
    /\ ~Written
    /\ repo' = [repo EXCEPT !.objects = Append(@, WriterCommit(repo.HEAD)),
                            !.HEAD = Len(repo.objects) + 1]
    /\ UNCHANGED <<pc, state, loc, arg, exit, disk, log, ghost, runs, conc, mbox>>

\* one invocation at a time, in a repository whose HEAD names a commit or
\* is unborn; the input is one patch
InitRef ==
    /\ pc = [p \in Procs |-> "idle"]
    /\ state = [p \in Procs |-> am_state_init]
    /\ loc = [p \in Procs |-> [ptr |-> NoCommit, commit |-> NoCommit]]
    /\ arg = [p \in Procs |-> NoArg]
    /\ exit = [p \in Procs |-> NoExit]
    /\ disk = NoDir
    /\ \E born \in BOOLEAN :
           repo = [HEAD |-> IF born THEN 1 ELSE NoCommit,
                   objects |-> IF born THEN <<RootCommit>> ELSE <<>>,
                   index |-> <<>>]
    /\ log = <<>>
    /\ ghost = [p \in Procs |-> NoGhost]
    /\ runs = 0
    /\ conc = FALSE
    /\ mbox = [mails |-> <<MailFull>>, kept |-> {1}]

NextRef == Next \/ OtherWriter

\* the tool and another writer of HEAD
SpecRef == InitRef /\ [][NextRef]_vars

(* ------------------------------------------- a run that is let to run *)

\* the labels of the loop of am_run, am_next and do_commit included
RunPcs ==
    {"loop", "mailinfo", "harvest", "write_author", "write_msg", "apply",
     "commit_lookup", "commit_tree", "commit_ref", "next_clear", "next_unlink",
     "next_write", "destroy"}

\* a step of am_run of process p: the loop head, parse_mail, the two
\* writes, run_apply, do_commit, am_next, am_destroy
RunStep(p) ==
    \/ RunLoop(p)
    \/ ParseMailinfo(p)
    \/ ParseHarvest(p)
    \/ WriteAuthorScript(p)
    \/ WriteCommitMsg(p)
    \/ RunApply(p)
    \/ RunApplyFail(p)
    \/ CommitLookup(p)
    \/ CommitTree(p)
    \/ CommitRef(p)
    \/ NextClear(p)
    \/ NextUnlink(p)
    \/ NextWrite(p)
    \/ RunDestroy(p)

\* every call am_run makes returns, and a process that is not killed goes
\* on to its next step: weak fairness of RunStep(p), which is enabled
\* exactly while p is in am_run
RunFairness ==
    \A p \in Procs : []<>(pc[p] \notin RunPcs) \/ []<><<RunStep(p)>>_vars

\* the inputs whose messages are committed (MailFull), skipped (MailPine) or
\* end the run (MailNoDiff), or have no file
LiveMboxes ==
    {m \in Mboxes :
        \A i \in 1..Len(m.mails) : m.mails[i] \in {MailFull, MailPine, MailNoDiff}}

\* before any invocation, with one of these inputs
InitLive ==
    /\ pc = [p \in Procs |-> "idle"]
    /\ state = [p \in Procs |-> am_state_init]
    /\ loc = [p \in Procs |-> [ptr |-> NoCommit, commit |-> NoCommit]]
    /\ arg = [p \in Procs |-> NoArg]
    /\ exit = [p \in Procs |-> NoExit]
    /\ disk = NoDir
    /\ \E born \in BOOLEAN :
           repo = [HEAD |-> IF born THEN 1 ELSE NoCommit,
                   objects |-> IF born THEN <<RootCommit>> ELSE <<>>,
                   index |-> <<>>]
    /\ log = <<>>
    /\ ghost = [p \in Procs |-> NoGhost]
    /\ runs = 0
    /\ conc = FALSE
    /\ mbox \in LiveMboxes

\* the tool, whose run loop is not left waiting
SpecLive == InitLive /\ [][Next]_vars /\ RunFairness

(* ------------------------------------- the author-script codec, alone *)

\* the longest (name, email, date), all three together, that is written
MaxCodecLen == 3

\* the bytes the three strings are made of: a letter, the quote, the
\* backslash, the line feed, the space
CodecBytes == {"a", "'", "\\", "\n", " "}

\* the byte strings of length n
RECURSIVE StringsOfLen(_)
StringsOfLen(n) ==
    IF n = 0 THEN {<<>>}
    ELSE {<<c>> \o t : c \in CodecBytes, t \in StringsOfLen(n - 1)}

\* the (name, email, date) of MaxCodecLen bytes or fewer in all
CodecInputs ==
    UNION {StringsOfLen(a) \X StringsOfLen(b) \X StringsOfLen(c) :
               <<a, b, c>> \in {t \in (0..MaxCodecLen) \X (0..MaxCodecLen)
                                        \X (0..MaxCodecLen) :
                                    t[1] + t[2] + t[3] <= MaxCodecLen}}

\* a session of one patch, set up, whose mail has been parsed
CodecDir ==
    [NoDir EXCEPT !.dir = TRUE, !.next = FmtD(1), !.last = FmtD(1),
                  !.info = <<"\n">>, !.msg = <<>>, !.patch = <<"+">>]

\* am_run is about to call write_author_script with any three strings in
\* the state
InitCodec ==
    /\ pc = [p \in Procs |-> IF p = 1 THEN "write_author" ELSE "idle"]
    /\ \E in \in CodecInputs :
           /\ state = [p \in Procs |->
                          IF p = 1
                          THEN [am_state_init EXCEPT !.cur = 1, !.last = 1,
                                                     !.author_name = in[1],
                                                     !.author_email = in[2],
                                                     !.author_date = in[3],
                                                     !.msg = <<"m", "\n">>]
                          ELSE am_state_init]
           /\ ghost = [p \in Procs |->
                          IF p = 1 THEN [NoGhost EXCEPT !.cur0 = 1, !.iterState = state[1]]
                          ELSE NoGhost]
    /\ loc = [p \in Procs |-> [ptr |-> NoCommit, commit |-> NoCommit]]
    /\ arg = [p \in Procs |-> NoArg]
    /\ exit = [p \in Procs |-> IF p = 1 THEN [NoExit EXCEPT !.cause = "running"]
                               ELSE NoExit]
    /\ disk = CodecDir
    /\ repo = [HEAD |-> NoCommit, objects |-> <<>>, index |-> <<>>]
    /\ log = <<>>
    /\ runs = 1
    /\ conc = FALSE
    /\ mbox = [mails |-> <<MailFull>>, kept |-> {1}]

\* the process is gone after write_author_script and another cmd_am has
\* come as far as am_load's read_author_script: a fresh am_state with cur
\* and last read from the session
Reload(p) ==
    /\ At(p, "write_msg")
    /\ am_in_progress(disk)
    /\ state' = [state EXCEPT ![p] = [am_state_init EXCEPT !.cur = LoadCur(disk),
                                                           !.last = LoadLast(disk)]]
    /\ Goto(p, "load_author")
    /\ UNCHANGED <<loc, arg, exit, disk, repo, log, ghost, runs, conc, mbox>>

NextCodec == WriteAuthorScript(1) \/ Reload(1) \/ LoadAuthor(1)

SpecCodec == InitCodec /\ [][NextCodec]_vars

(* --------------------------------- am_load on any author-script, alone *)

\* the longest sequence of author-script lines that is tried
MaxLines == 4

\* the (name, email, date) whose author-script is damaged
BaseAuthors ==
    {<<<<"A">>, <<"a">>, <<"D">>>>, <<<<"'">>, <<>>, <<" ">>>>, <<<<>>, <<>>, <<>>>>}

\* the bytes an edit puts into the file
EditBytes == {"x", "'", "\\", "\n", "=", " "}

\* the three lines of the author-script of t
AuthorLines(t) ==
    <<KEY_NAME \o <<"=">> \o sq_quote_buf(t[1]) \o <<"\n">>,
      KEY_EMAIL \o <<"=">> \o sq_quote_buf(t[2]) \o <<"\n">>,
      KEY_DATE \o <<"=">> \o sq_quote_buf(t[3]) \o <<"\n">>>>

\* the lines ls in the order the indices ks give
RECURSIVE JoinLines(_, _)
JoinLines(ls, ks) ==
    IF ks = <<>> THEN <<>> ELSE ls[Head(ks)] \o JoinLines(ls, Tail(ks))

\* the files an editor, a full disk or a crash can make of the file f: a
\* byte deleted, inserted or replaced, the file cut short
EditedFiles(f) ==
    {SubSeq(f, 1, i - 1) \o SubSeq(f, i + 1, Len(f)) : i \in 1..Len(f)}
    \cup {SubSeq(f, 1, i - 1) \o <<c>> \o SubSeq(f, i, Len(f)) :
              i \in 1..(Len(f) + 1), c \in EditBytes}
    \cup {[f EXCEPT ![i] = c] : i \in 1..Len(f), c \in EditBytes}
    \cup {SubSeq(f, 1, i) : i \in 0..Len(f)}

\* the files made of the lines of an author-script: lines missing, repeated,
\* out of order
ShuffledFiles(t) ==
    {JoinLines(AuthorLines(t), ks) :
         ks \in UNION {[1..n -> 1..3] : n \in 0..MaxLines}}

\* the contents "author-script" can have when am_load reads it
AuthorFiles ==
    UNION {EditedFiles(write_author_script(t[1], t[2], t[3])) \cup ShuffledFiles(t) :
               t \in BaseAuthors}

\* a new cmd_am has found the session of CodecDir in progress, whatever its
\* "author-script" holds, and is about to call am_load
InitLoad ==
    /\ pc = [p \in Procs |-> IF p = 1 THEN "load_next" ELSE "idle"]
    /\ state = [p \in Procs |-> am_state_init]
    /\ loc = [p \in Procs |-> [ptr |-> NoCommit, commit |-> NoCommit]]
    /\ arg = [p \in Procs |-> NoArg]
    /\ exit = [p \in Procs |-> IF p = 1 THEN [NoExit EXCEPT !.cause = "running"]
                               ELSE NoExit]
    /\ \E f \in AuthorFiles \cup {ENOENT} :
           disk = [CodecDir EXCEPT !.author_script = f,
                                   !.final_commit = <<"m", "\n">>,
                                   !.mails = {<<msgnum(1), MailFull>>}]
    /\ repo = [HEAD |-> 1, objects |-> <<RootCommit>>, index |-> <<>>]
    /\ log = <<>>
    /\ ghost = [p \in Procs |->
                   IF p = 1 THEN [NoGhost EXCEPT !.loaded = TRUE, !.head0 = 1, !.objs0 = 1,
                                                 !.iterDisk = disk]
                   ELSE NoGhost]
    /\ runs = 1
    /\ conc = FALSE
    /\ mbox = [mails |-> <<MailFull>>, kept |-> {1}]

NextLoad == LoadNext(1) \/ LoadLastFile(1) \/ LoadAuthor(1) \/ LoadMsg(1)

SpecLoad == InitLoad /\ [][NextLoad]_vars

(* ------------------------------------------ detect_patch_format, alone *)

\* the most lines a file given to detect_patch_format has
MaxDetectLines == 3

\* the lines the files are made of: empty, mbox "From " and "From: "
\* lines, header fields, lines that are no header field, folded lines
DetectLines ==
    {<<>>,
     <<"F", "r", "o", "m", " ", "x">>,
     <<"F", "r", "o", "m", ":", " ", "x">>,
     <<"F", "r", "o", "m", ":", "x">>,
     <<"a", ":", " ", "b">>,
     <<"a", " ", "b">>,
     <<" ", "x">>,
     <<"\t", "x">>,
     <<":", "x">>}

\* the line ends of the files: "\n", or "\r\n" as a mail transport leaves it
DetectEnds == {<<"\n">>, <<"\r", "\n">>}

\* the files of n lines that all end in e
RECURSIVE FilesOfLines(_, _)
FilesOfLines(n, e) ==
    IF n = 0 THEN {<<>>}
    ELSE LET rest == FilesOfLines(n - 1, e)
         IN  {l \o e \o f : l \in DetectLines, f \in rest}

\* the files of MaxDetectLines lines or fewer, and those whose last line
\* lost its "\n"
DetectFiles ==
    LET whole == UNION {FilesOfLines(n, e) : n \in 0..MaxDetectLines, e \in DetectEnds}
    IN  whole \cup {SubSeq(f, 1, Len(f) - 1) : f \in whole \ {<<>>}}

\* the paths detect_patch_format is given
DetectPaths ==
    {[first |-> k, file |-> <<>>] : k \in {"none", "-", "dir"}}
    \cup {[first |-> "file", file |-> f] : f \in DetectFiles}

\* cmd_am found no session and no --patch-format: am_setup is about to call
\* detect_patch_format on any of the paths
InitDetect ==
    /\ pc = [p \in Procs |-> IF p = 1 THEN "setup" ELSE "idle"]
    /\ state = [p \in Procs |-> am_state_init]
    /\ loc = [p \in Procs |-> [ptr |-> NoCommit, commit |-> NoCommit]]
    /\ \E ps \in DetectPaths :
           arg = [p \in Procs |->
                     IF p = 1 THEN [patch_format |-> PATCH_FORMAT_UNKNOWN, paths |-> ps]
                     ELSE NoArg]
    /\ exit = [p \in Procs |-> IF p = 1 THEN [NoExit EXCEPT !.cause = "running"]
                               ELSE NoExit]
    /\ disk = NoDir
    /\ repo = [HEAD |-> NoCommit, objects |-> <<>>, index |-> <<>>]
    /\ log = <<>>
    /\ ghost = [p \in Procs |-> NoGhost]
    /\ runs = 1
    /\ conc = FALSE
    /\ mbox = [mails |-> <<MailFull>>, kept |-> {1}]

NextDetect == SetupDetectFail(1) \/ SetupMkdir(1)

SpecDetect == InitDetect /\ [][NextDetect]_vars

(* ================================================================ claims *)

\* the invocation the sequential claims follow
P1 == CHOOSE p \in Procs : \A q \in Procs : p <= q

\* invocation P1 did `op` on patch n in its current process
Did(op, n) == \E k \in 1..Len(log) : log[k] = [p |-> P1, op |-> op, n |-> n]

\* the last thing invocation P1 did was `op` on patch n
LastDid(op, n) == log # <<>> /\ log[Len(log)] = [p |-> P1, op |-> op, n |-> n]

\* the message the splitter stored as patch n of this session
MailAt(n) == mbox.mails[n]

\* patch n of this session has no mail file
Missing(n) == n \notin mbox.kept

\* the process of P1 has ended (not by a kill) and is still shown
Done == pc[P1] = "done"

\* the process of P1 follows a process that ended with an apply failure
Resumed == pc[P1] # "idle" /\ ghost[P1].prev.cause = "applyfail"

(* C1: after a run stopped with an apply failure at patch i, the next      *)
(* invocation loads the session, am_load sets cur to i, nothing the run    *)
(* does concerns a patch j < i, and the first patch it touches is i.       *)
C1_ResumePosition ==
    Resumed =>
        LET i == ghost[P1].prev.at
        IN  /\ ghost[P1].loaded
            /\ pc[P1] \notin SetupPcs
            /\ pc[P1] \in {"load_last", "load_author", "load_msg"} => state[P1].cur = i
            /\ pc[P1] = "loop" /\ log = <<>> => state[P1].cur = i
            /\ \A k \in 1..Len(log) : log[k].n >= i
            /\ log # <<>> => log[1] = [p |-> P1, op |-> "touch", n |-> i]

\* a resumed run has parsed patch 2 again, the patch the run before failed at
C1_Witness ==
    /\ Resumed
    /\ ghost[P1].prev.at = 2
    /\ Did("parse", 2)

(* C2: a second invocation after an apply failure at patch i, in which the *)
(* applier fails for no patch, commits patch i and the later ones, ends    *)
(* with cur = last + 1, the session directory removed and exit code 0.     *)
C2_ResumeCompletes ==
    (/\ Done
     /\ ghost[P1].prev.cause = "applyfail"
     /\ exit[P1].cause \notin {"applyfail", "emptypatch", "ident"})
    => /\ exit[P1].code = 0
       /\ ~disk.dir
       /\ state[P1].cur = state[P1].last + 1

\* what parse_mail harvests from the output of mailinfo for patch n alone
Parsed(n) == Harvest(MailinfoStdout(MailAt(n)))

\* an apply failure at patch i left everything but the scratch files as it
\* was: exit 128, HEAD and the object store as before patch i, the session on
\* disk with next = i and last unchanged, and author-script and final-commit
\* holding what the run has in memory
ApplyFailureKeepsSession ==
    (Done /\ exit[P1].cause = "applyfail") =>
        LET i == exit[P1].at
            as == read_author_script(disk.author_script)
        IN  /\ exit[P1].code = 128
            /\ repo.HEAD = ghost[P1].iterHead
            /\ Len(repo.objects) = ghost[P1].iterObjs
            /\ ~Did("commit", i)
            /\ am_in_progress(disk)
            /\ disk.next = FmtD(i)
            /\ Strtol(Trim(disk.next)) = i
            /\ disk.last = ghost[P1].iterDisk.last
            /\ LastDid("applyfail", i) /\ Did("parse", i)
            /\ as.ret = 0
            /\ as.author_name = state[P1].author_name
            /\ as.author_email = state[P1].author_email
            /\ as.author_date = state[P1].author_date
            /\ disk.final_commit = state[P1].msg

(* C3: when the applier fails for patch i the run exits with 128, HEAD is  *)
(* the commit it was before patch i, the session is still on disk with     *)
(* next = i, and author-script and final-commit hold the authorship and    *)
(* the message parsed from patch i.                                        *)
C3_ApplyFailureLeavesSession ==
    /\ ApplyFailureKeepsSession
    /\ (Done /\ exit[P1].cause = "applyfail") =>
           LET i == exit[P1].at
               as == read_author_script(disk.author_script)
           IN  /\ as.author_name = Parsed(i).author_name
               /\ as.author_email = Parsed(i).author_email
               /\ as.author_date = Parsed(i).author_date
               /\ disk.final_commit = ComposeMsg(Parsed(i).msg, MailAt(i).body)

\* the patches of the loop of the process of P1: [cur, last] as the loop
\* found them
RunRange == ghost[P1].cur0 .. state[P1].last

\* parse_mail skips patch n: its author is pine's internal data
SkipMail(n) == MailAt(n).name = PineName

\* the commits the process of P1 wrote
NewCommits == Len(repo.objects) - ghost[P1].objs0

\* the patches the commits of this process were written for, in order
CommitLog == SelectSeq(log, LAMBDA e : e.p = P1 /\ e.op = "commit")

\* the run succeeded: exit 0, no session directory, one commit per patch
\* that was neither skipped nor missing, in increasing patch order, each
\* on top of the HEAD before it (no parent on an unborn HEAD)
RunSucceeded ==
    /\ exit[P1].code = 0
    /\ ~disk.dir
    /\ NewCommits = Cardinality({i \in RunRange : ~Missing(i) /\ ~SkipMail(i)})
    /\ Len(CommitLog) = NewCommits
    /\ \A k \in 1..NewCommits :
           /\ ~Missing(CommitLog[k].n) /\ ~SkipMail(CommitLog[k].n)
           /\ k > 1 => CommitLog[k - 1].n < CommitLog[k].n
           /\ repo.objects[ghost[P1].objs0 + k].parents =
                  IF k > 1 THEN <<ghost[P1].objs0 + k - 1>>
                  ELSE IF ghost[P1].head0 = NoCommit THEN <<>>
                  ELSE <<ghost[P1].head0>>
    /\ repo.HEAD = IF NewCommits = 0 THEN ghost[P1].head0 ELSE Len(repo.objects)

C5_CounterInvariant ==
    pc[P1] \in {"loop", "destroy"} =>
        /\ 1 <= state[P1].cur
        /\ state[P1].cur <= state[P1].last + 1
        /\ disk.next = FmtD(state[P1].cur)
        /\ Strtol(Trim(disk.next)) = state[P1].cur

\* the loop is left after the second of two patches was advanced over
C5_Witness ==
    /\ pc[P1] = "destroy"
    /\ state[P1].last = 2
    /\ state[P1].cur = 3
    /\ LastDid("next", 2)

\* the process of P1 was killed during am_setup
KilledInSetup ==
    pc[P1] = "idle" /\ exit[P1].cause = "killed" /\ exit[P1].pc = "setup"

(* C6 as claimed: the write of "next" is the commit point of setup: killed *)
(* before "next" exists, no session is detected; killed after, one is.     *)
C6_NextIsCommitPoint ==
    KilledInSetup => (am_in_progress(disk) <=> disk.next # ENOENT)

(* C6 as amended: "last" is the last file setup writes and its write is    *)
(* the commit point: no session is detected during setup or after a kill   *)
(* during setup, and one is detected whenever "last" exists.               *)
C6_LastIsCommitPoint ==
    /\ pc[P1] \in SetupPcs => disk.last = ENOENT /\ ~am_in_progress(disk)
    /\ KilledInSetup => disk.last = ENOENT /\ ~am_in_progress(disk)
    /\ disk.last # ENOENT => am_in_progress(disk)
    /\ pc[P1] = "idle" /\ exit[P1].cause = "killed" /\ exit[P1].pc = "run"
           => am_in_progress(disk)

\* killed between the two writes of setup: "next" exists, "last" does not
C6_Witness ==
    /\ KilledInSetup
    /\ disk.next # ENOENT
    /\ disk.last = ENOENT

(* C7: when the splitter fails, the session directory is removed before    *)
(* the run dies, "last" and "next" are not written, and the invocation     *)
(* after it finds no session in progress.                                  *)
C7_SplitFailureRollsBack ==
    /\ pc[P1] = "split_failed" => disk.last = ENOENT /\ ~am_in_progress(disk)
    /\ (Done /\ exit[P1].cause = "split") =>
           /\ exit[P1].code = 128
           /\ disk = NoDir
           /\ ~am_in_progress(disk)
    /\ (pc[P1] # "idle" /\ ghost[P1].prev.cause = "split") => ~ghost[P1].loaded

\* the invocation after a failed split sets a session up anew
C7_Witness ==
    /\ pc[P1] = "split"
    /\ ghost[P1].prev.cause = "split"

(* C8 as claimed: after a detection failure, a split failure, an empty     *)
(* patch or a malformed author-script the detector finds no session.       *)
C8_OnlyApplyFailureLeavesSession ==
    (Done /\ exit[P1].cause \in {"detect", "split", "emptypatch", "authorscript"})
    => ~am_in_progress(disk)

(* C8 as amended: after a detection failure or a split failure the         *)
(* detector finds no session; after an apply failure, an empty patch or a  *)
(* malformed author-script the session is left on disk, "next" still at    *)
(* the patch the run stopped at, and the detector finds it.                *)
C8_FatalExitsAndSession ==
    /\ (Done /\ exit[P1].cause \in {"detect", "split"}) => ~am_in_progress(disk)
    /\ (Done /\ exit[P1].cause \in {"applyfail", "emptypatch", "authorscript"}) =>
           /\ exit[P1].code = 128
           /\ am_in_progress(disk)
           /\ Strtol(Trim(disk.next)) = exit[P1].at

\* a load died on a malformed author-script
C8_Witness ==
    /\ Done
    /\ exit[P1].cause = "authorscript"
    /\ am_in_progress(disk)

\* nothing in the log for patch n but the ops given
OnlyDid(ops, n) == \A k \in 1..Len(log) : log[k].n = n => log[k].op \in ops

(* C9: a patch whose author the parser reports as pine's internal data is  *)
(* skipped whether or not its patch file is empty: no applier, no commit,  *)
(* HEAD, author-script, final-commit and the in-memory fields as they were *)
(* when the iteration began, and "next" advanced to i + 1.                 *)
C9_SkipIsSilent ==
    /\ \A k \in 1..Len(log) :
           (log[k].op = "parse" /\ SkipMail(log[k].n)) =>
               /\ OnlyDid({"touch", "parse", "skip", "next"}, log[k].n)
               /\ k < Len(log) => log[k + 1].op = "skip" /\ log[k + 1].n = log[k].n
               /\ k = Len(log) => pc[P1] = "harvest"
    /\ pc[P1] = "harvest" =>
           (Harvest(disk.info).author_name = PineName <=> SkipMail(state[P1].cur))
    /\ \A k \in 1..Len(log) :
           (log[k].op = "skip" /\ k < Len(log)) =>
               log[k + 1].op = "next" /\ log[k + 1].n = log[k].n
    /\ \A i \in 1..Len(mbox.mails) :
           (LastDid("skip", i) \/ (LastDid("next", i) /\ Did("skip", i))) =>
               /\ SkipMail(i)
               /\ repo.HEAD = ghost[P1].iterHead
               /\ Len(repo.objects) = ghost[P1].iterObjs
               /\ pc[P1] = "next_clear" =>
                      /\ state[P1] = ghost[P1].iterState
                      /\ disk.author_script = ghost[P1].iterDisk.author_script
                      /\ disk.final_commit = ghost[P1].iterDisk.final_commit
               /\ pc[P1] = "loop" =>
                      /\ disk.next = FmtD(i + 1)
                      /\ state[P1].cur = i + 1
                      /\ state[P1].author_name = NULL /\ state[P1].msg = NULL
                      /\ disk.author_script = ENOENT /\ disk.final_commit = ENOENT

\* pine's data with an empty patch file was skipped and advanced over
C9_Witness ==
    /\ pc[P1] = "loop"
    /\ \E i \in 1..Len(mbox.mails) :
           /\ MailAt(i) = MailPine
           /\ disk.patch = <<>>
           /\ LastDid("next", i)
           /\ Did("skip", i)

\* patch n had no mail file when the loop of P1 looked for it
NoMailFile(n) == ~file_exists(ghost[P1].iterDisk, msgnum(n))

(* C10: a patch in [cur, last] without a mail file is advanced over: no    *)
(* parser, applier or commit for it, HEAD unmoved, no error, and "next"    *)
(* advanced to i + 1.                                                      *)
C10_MissingMailSkipped ==
    /\ \A k \in 1..Len(log) :
           (log[k].op = "touch" /\ Missing(log[k].n)) =>
               /\ NoMailFile(log[k].n)
               /\ OnlyDid({"touch", "next"}, log[k].n)
               /\ k < Len(log) => log[k + 1].op = "next" /\ log[k + 1].n = log[k].n
               /\ k = Len(log) => pc[P1] \in {"next_clear", "next_unlink", "next_write"}
    /\ \A i \in 1..Len(mbox.mails) :
           (Missing(i) /\ (LastDid("touch", i) \/ LastDid("next", i))) =>
               /\ repo.HEAD = ghost[P1].iterHead
               /\ Len(repo.objects) = ghost[P1].iterObjs
               /\ pc[P1] = "loop" => disk.next = FmtD(i + 1) /\ state[P1].cur = i + 1
    /\ (Done /\ exit[P1].code # 0 /\ ghost[P1].cur0 >= 1) => ~Missing(exit[P1].at)

\* the first of two patches had no mail file and the loop went on to the second
C10_Witness ==
    /\ pc[P1] = "mailinfo"
    /\ state[P1].cur = 2
    /\ Missing(1)
    /\ LastDid("touch", 2)

\* the three strings read_author_script left in the state are the three
\* that write_author_script was given
SameAuthor(a, b) ==
    /\ a.author_name = b.author_name
    /\ a.author_email = b.author_email
    /\ a.author_date = b.author_date

\* read_author_script has returned in the process of P1
AuthorRead ==
    \/ pc[P1] = "load_msg"
    \/ Done /\ exit[P1].pc = "load_author"

\* one of the three strings holds a line feed
HasNewline(st) ==
    \E f \in {st.author_name, st.author_email, st.author_date} :
        \E k \in 1..Len(f) : f[k] = "\n"

RoundTripWithoutNewline ==
    (AuthorRead /\ ~HasNewline(ghost[P1].iterState)) =>
        /\ pc[P1] = "load_msg"
        /\ SameAuthor(state[P1], ghost[P1].iterState)

\* the round trip of three strings with a line feed fails
RoundTripWithNewline ==
    (AuthorRead /\ HasNewline(ghost[P1].iterState)) => Done /\ exit[P1].code = 128

\* the values a line of a damaged author-script can quote: two bytes or
\* fewer, none a line feed
QuotedValues ==
    LET B == {"A", "a", "D", " ", "'", "\\", "x", "="}
    IN  {<<>>} \cup {<<b>> : b \in B} \cup {<<b, c>> : b \in B, c \in B}

\* line l is key='value', one shell single-quoted value and nothing else
IsAssignment(l, key) == \E v \in QuotedValues : l = key \o <<"=">> \o sq_quote_buf(v)

\* the file is exactly the three lines, in order, nothing after the third
\* (whose line feed may be missing)
ExactlyThreeLines(f) ==
    \E g \in {f, f \o <<"\n">>} :
        /\ Len(SelectSeq(g, LAMBDA b : b = "\n")) = 3
        /\ g[Len(g)] = "\n"
        /\ IsAssignment(FirstLine(g), KEY_NAME)
        /\ IsAssignment(FirstLine(AfterLine(g)), KEY_EMAIL)
        /\ IsAssignment(FirstLine(AfterLine(AfterLine(g))), KEY_DATE)

\* am_load has called read_author_script in the process of P1
AuthorLoaded == pc[P1] \in {"load_msg", "loop"} \/ (Done /\ exit[P1].pc = "load_author")

(* C12: read_author_script succeeds with the three fields unset when the   *)
(* file is absent and fails for every file that is not exactly the three   *)
(* lines NAME, EMAIL, DATE, each one single-quoted value, nothing after    *)
(* the third; on a failure am_load ends the run before any patch is        *)
(* parsed, applied or committed, with next, last and HEAD as they were.    *)
C12_StrictAuthorScript ==
    AuthorLoaded =>
        LET f == ghost[P1].iterDisk.author_script
        IN  /\ f = ENOENT =>
                   /\ ~Done
                   /\ state[P1].author_name = NULL
                   /\ state[P1].author_email = NULL
                   /\ state[P1].author_date = NULL
            /\ (f # ENOENT /\ ~ExactlyThreeLines(f)) =>
                   /\ Done
                   /\ exit[P1].cause = "authorscript"
            /\ Done =>
                   /\ exit[P1].code = 128
                   /\ log = <<>>
                   /\ disk = ghost[P1].iterDisk
                   /\ repo.HEAD = ghost[P1].head0
                   /\ Len(repo.objects) = ghost[P1].objs0

\* a file of exactly the three lines is read without an error
ExactFileAccepted ==
    (AuthorLoaded /\ ghost[P1].iterDisk.author_script # ENOENT
                  /\ ExactlyThreeLines(ghost[P1].iterDisk.author_script)) => ~Done

\* am_load died on an author-script with a byte after its third line
C12_Witness ==
    /\ Done
    /\ exit[P1].cause = "authorscript"
    /\ \E t \in BaseAuthors :
           ghost[P1].iterDisk.author_script
               = write_author_script(t[1], t[2], t[3]) \o <<"x">>

\* where the lines of the file f start
LineStarts(f) == {a \in 1..Len(f) : a = 1 \/ f[a - 1] = "\n"}

\* the line of f that starts at a, without its "\n" or "\r\n"
LineOf(f, a) ==
    LET ends == {e \in a..Len(f) : f[e] = "\n"}
        e == IF ends = {} THEN Len(f) + 1
             ELSE CHOOSE x \in ends : \A y \in ends : x <= y
        raw == SubSeq(f, a, e - 1)
    IN  IF e <= Len(f) /\ raw # <<>> /\ raw[Len(raw)] = "\r"
        THEN SubSeq(raw, 1, Len(raw) - 1)
        ELSE raw

\* the line begins with a header field name: one byte or more of [!-9;-~],
\* then ":"
HeaderField(l) ==
    \E k \in 2..Len(l) : l[k] = ":" /\ \A j \in 1..(k - 1) : l[j] \notin {":", " ", "\t", "\r"}

\* the policy of format detection on the first file f: its first non-blank
\* line L1 begins with "From " or "From: ", or every non-blank, non-indented
\* line from L1 up to the first blank line after it is a header field
FilePolicyMbox(f) ==
    \E a1 \in LineStarts(f) :
        /\ LineOf(f, a1) # <<>>
        /\ \A b \in LineStarts(f) : b < a1 => LineOf(f, b) = <<>>
        /\ \/ StartsWith(LineOf(f, a1), <<"F", "r", "o", "m", " ">>)
           \/ StartsWith(LineOf(f, a1), <<"F", "r", "o", "m", ":", " ">>)
           \/ \A a \in LineStarts(f) :
                  (/\ a >= a1
                   /\ \A b \in LineStarts(f) : (a1 < b /\ b <= a) => LineOf(f, b) # <<>>
                   /\ LineOf(f, a)[1] \notin {" ", "\t"})
                  => HeaderField(LineOf(f, a))

\* the policy of format detection on the paths
PolicyMbox(ps) == ps.first \in {"none", "-", "dir"} \/ FilePolicyMbox(ps.file)

\* am_setup has the answer of detect_patch_format
Detected == pc[P1] = "split" \/ (Done /\ exit[P1].cause = "detect")

\* the file begins with a blank line
LeadingBlank(f) == f # <<>> /\ LineOf(f, 1) = <<>>

(* C13: detect_patch_format returns Mbox exactly when the path list is     *)
(* empty, the first path is "-" or a directory, the first non-blank line   *)
(* L1 of the first file begins with "From " or "From: ", or every          *)
(* non-blank, non-indented line from L1 to the first blank line after it   *)
(* is a header field; for every other file it returns Unknown.             *)
C13_DetectionPolicy ==
    Detected => (pc[P1] = "split" <=> PolicyMbox(arg[P1].paths))

\* the policy is followed for the files that do not begin with a blank line
PolicyWithoutLeadingBlank ==
    (Detected /\ ~LeadingBlank(arg[P1].paths.file)) =>
        (pc[P1] = "split" <=> PolicyMbox(arg[P1].paths))

\* a file that begins with a blank line and has a non-blank line is Mbox
MboxAfterLeadingBlank ==
    (Detected /\ LeadingBlank(arg[P1].paths.file)) =>
        (pc[P1] = "split" <=> \E a \in LineStarts(arg[P1].paths.file) :
                                  LineOf(arg[P1].paths.file, a) # <<>>)

\* invocation p is executing am_setup or am_run
Owns(p) == pc[p] \in SetupPcs \cup RunPcs

(* C14: when two invocations run concurrently in one repository, the check *)
(* of next and last ensures that at no time both are executing setup or    *)
(* the run loop on the same session directory.                             *)
C14_ExclusiveOwnership == ~(Owns(1) /\ Owns(2))

\* no two invocations are in am_setup at once
NeverBothInSetup == ~(pc[1] \in SetupPcs /\ pc[2] \in SetupPcs)

\* no invocation loads the session while the other is in its run loop
NeverLoadsOwnedSession == ~(pc[1] \in RunPcs /\ ghost[2].loaded /\ pc[2] \in RunPcs)

\* the commits reachable from commit k along the parents
RECURSIVE Ancestry(_)
Ancestry(k) ==
    IF k = NoCommit THEN {}
    ELSE {k} \cup UNION {Ancestry(q) : q \in {repo.objects[k].parents[i] :
                                                  i \in 1..Len(repo.objects[k].parents)}}

\* patch j of the session on disk has been committed to HEAD
CommittedToHead(j) ==
    \E k \in Ancestry(repo.HEAD) :
        repo.objects[k].sid = disk.sid /\ repo.objects[k].n = j

\* patch j of the session had a mail file and is not one that is skipped
MustCommit(j) == ~Missing(j) /\ ~SkipMail(j)

(* C15: the write of next is the last persistent effect of an iteration,   *)
(* after the commit object is written and HEAD is updated: in every        *)
(* reachable state, kills between any two steps included, if next on disk  *)
(* holds n then every patch j < n of the session that had a mail file and  *)
(* was not skipped has been committed to HEAD.                             *)
C15_CommitBeforeAdvance ==
    /\ am_in_progress(disk) =>
           \A j \in 1..(LoadCur(disk) - 1) : MustCommit(j) => CommittedToHead(j)
    /\ (pc[P1] \in {"next_clear", "next_unlink", "next_write"}
            /\ MustCommit(state[P1].cur)) =>
           /\ Did("commit", state[P1].cur)
           /\ repo.objects[repo.HEAD].n = state[P1].cur
           /\ repo.objects[repo.HEAD].sid = disk.sid
           /\ disk.next = FmtD(state[P1].cur)
    /\ (pc[P1] = "loop" /\ LastDid("next", state[P1].cur - 1)) =>
           /\ disk.next = FmtD(state[P1].cur)
           /\ repo.HEAD = ghost[P1].iterHead
                  \/ (Did("commit", state[P1].cur - 1)
                      /\ repo.objects[repo.HEAD].n = state[P1].cur - 1)

\* a session of two patches, killed after the second was committed and before
\* next was written: next holds 2, patch 1 is in HEAD and so is patch 2
C15_Witness ==
    /\ pc[P1] = "idle"
    /\ exit[P1].cause = "killed"
    /\ am_in_progress(disk)
    /\ LoadCur(disk) = 2
    /\ MustCommit(1) /\ CommittedToHead(1)
    /\ MustCommit(2) /\ CommittedToHead(2)

(* C16: am_next deletes author-script and final-commit before it writes    *)
(* the incremented next: in every reachable state of a session, kills      *)
(* between any two file operations included, an author-script or a         *)
(* final-commit on disk was written for the patch whose number next holds; *)
(* after an advance neither file exists.                                   *)
C16_NoStaleAuthorship ==
    /\ (disk.dir /\ disk.next # ENOENT /\ disk.author_script # ENOENT) =>
           disk.author_script_n = LoadCur(disk)
    /\ (disk.dir /\ disk.next # ENOENT /\ disk.final_commit # ENOENT) =>
           disk.final_commit_n = LoadCur(disk)
    /\ (disk.author_script # ENOENT \/ disk.final_commit # ENOENT) => am_in_progress(disk)
    /\ pc[P1] = "next_write" =>
           disk.author_script = ENOENT /\ disk.final_commit = ENOENT
    /\ (pc[P1] = "loop" /\ log # <<>> /\ log[Len(log)].op = "next") =>
           disk.author_script = ENOENT /\ disk.final_commit = ENOENT

\* killed after patch 1 was advanced over and author-script was written for
\* patch 2: next holds 2
C16_Witness ==
    /\ pc[P1] = "idle"
    /\ exit[P1].cause = "killed"
    /\ disk.author_script # ENOENT
    /\ disk.final_commit = ENOENT
    /\ disk.author_script_n = 2
    /\ LoadCur(disk) = 2

(* C17: in every execution (am_setup or am_load, then the run loop) the    *)
(* four in-memory fields are unset whenever parse_mail stores its results, *)
(* so its four assertions never fail; am_next clears the four fields       *)
(* before the next patch is parsed.                                        *)
C17_ParseAssertionsHold ==
    /\ pc[P1] \in {"mailinfo", "harvest"} => ParseAsserts(state[P1])
    /\ Done => exit[P1].cause # "assert"
    /\ pc[P1] \in {"next_unlink", "next_write"} => ParseAsserts(state[P1])

\* the assertions hold in a run that set the session up, and after every
\* am_next
AssertionsHoldAfterSetup ==
    /\ (pc[P1] \in {"mailinfo", "harvest"} /\ ~ghost[P1].loaded) => ParseAsserts(state[P1])
    /\ (Done /\ ~ghost[P1].loaded) => exit[P1].cause # "assert"
    /\ pc[P1] \in {"next_unlink", "next_write"} => ParseAsserts(state[P1])
    /\ (pc[P1] \in {"mailinfo", "harvest"} /\ Did("next", state[P1].cur - 1))
           => ParseAsserts(state[P1])

\* a run that loaded a session fails an assertion exactly when the session
\* had an author-script or a final-commit
AssertionsFailAfterLoad ==
    (ghost[P1].loaded /\ pc[P1] = "mailinfo" /\ ~Did("next", state[P1].cur - 1)) =>
        (ParseAsserts(state[P1])
             <=> (disk.author_script = ENOENT /\ disk.final_commit = ENOENT))

\* parse_mail has run mailinfo for patch cur and is about to read "info"
InfoWritten == pc[P1] = "harvest"

(* C18: for every patch processed after an earlier patch of the session,   *)
(* the author name, email, date and subject lines parse_mail harvests from *)
(* info are those mailinfo emitted for that patch, with no bytes left of   *)
(* an earlier patch's output.                                              *)
C18_InfoOverwritten ==
    InfoWritten =>
        /\ disk.info = MailinfoStdout(MailAt(state[P1].cur))
        /\ Harvest(disk.info) = Parsed(state[P1].cur)

\* "info" is what mailinfo emitted when the file did not exist or was not
\* longer than the new output
InfoOverwrittenWhenNotLonger ==
    (InfoWritten /\ (ghost[P1].iterDisk.info = ENOENT
                     \/ Len(ghost[P1].iterDisk.info)
                            <= Len(MailinfoStdout(MailAt(state[P1].cur))))) =>
        /\ disk.info = MailinfoStdout(MailAt(state[P1].cur))
        /\ Harvest(disk.info) = Parsed(state[P1].cur)

\* "info" keeps the tail of a longer earlier output
InfoKeepsTail ==
    (InfoWritten /\ ghost[P1].iterDisk.info # ENOENT
                 /\ Len(ghost[P1].iterDisk.info)
                        > Len(MailinfoStdout(MailAt(state[P1].cur)))) =>
        /\ Len(disk.info) = Len(ghost[P1].iterDisk.info)
        /\ disk.info # MailinfoStdout(MailAt(state[P1].cur))

(* ---- C19 ---- *)

\* process p moves HEAD in this step
MovesHead(p) == pc[p] = "commit_ref" /\ pc'[p] = "next_clear"

HeadComparedWithParent ==
    [][\A p \in Procs :
          MovesHead(p) /\ loc[p].ptr # NoCommit => repo.HEAD = loc[p].ptr]_vars

\* the half of C19 with an unborn HEAD: HEAD is moved only while it still
\* is unborn
HeadComparedWithUnborn ==
    [][\A p \in Procs :
          MovesHead(p) /\ loc[p].ptr = NoCommit => repo.HEAD = NoCommit]_vars

(* ---- C20 ---- *)

\* "last" exists before and after this step
LastStays == disk.last # ENOENT /\ disk'.last # ENOENT

\* process p starts in this step
Starts(p) == pc[p] = "idle" /\ pc'[p] # "idle"

(* C20: "last" is written once: once setup has written it, no step of this *)
(* run or of a later one changes its contents (it goes only with the       *)
(* session directory, removed as a whole), and an invocation that finds a  *)
(* session in progress goes to am_load: it runs neither am_setup nor the   *)
(* splitter, keeps nothing of the paths it was given, and leaves the       *)
(* session directory as it found it.                                       *)
C20_LastWrittenOnce ==
    [][/\ LastStays => disk'.last = disk.last
       /\ disk.last # ENOENT /\ disk'.last = ENOENT => ~disk'.dir
       /\ disk.last # ENOENT => \A p \in Procs : pc'[p] \notin SetupPcs
       /\ \A p \in Procs :
              Starts(p) /\ am_in_progress(disk) =>
                  /\ pc'[p] = "load_next"
                  /\ arg'[p] = NoArg
                  /\ disk' = disk]_vars

\* a run that loaded the session has advanced it, and "last" is what setup
\* wrote: the number of patches of the input
C20_Witness ==
    /\ ghost[P1].loaded
    /\ \E n \in 1..MaxPatches : LastDid("next", n)
    /\ disk.last = FmtD(Len(mbox.mails))

(* ---- C21 ---- *)

\* the iterations process p has begun in this run
Iterations(p) ==
    Cardinality({k \in 1..Len(log) : log[k].p = p /\ log[k].op = "touch"})

\* process p is in am_run before and after this step
StaysInRun(p) == pc[p] \in RunPcs /\ pc'[p] \in RunPcs

\* this step of process p ends a loop iteration without exiting
EndsIteration(p) == pc[p] = "next_write" /\ pc'[p] = "loop"

\* am_run has returned: cur is last + 1 and the session is destroyed
RunCompleted(p) ==
    /\ exit[p].code = 0
    /\ state[p].cur = state[p].last + 1
    /\ ~disk.dir

(* C21: every run of am_run that is let to run terminates, by a fatal exit *)
(* or with cur = last + 1 and the session destroyed; a loop iteration that *)
(* does not exit increases cur by exactly 1 and writes "next" exactly      *)
(* once, with the new cur, and no other step of the loop changes cur or    *)
(* "next"; so a run that entered the loop at cur0 begins at most           *)
(* last - cur0 + 1 iterations.                                             *)
C21_RunLoopTerminates ==
    /\ \A p \in Procs : (pc[p] \in RunPcs) ~> (pc[p] \in {"done", "idle"})
    /\ [](\A p \in Procs :
            /\ pc[p] = "done" /\ exit[p].pc \in RunPcs =>
                   exit[p].code \in {128, 134} \/ RunCompleted(p)
            /\ pc[p] \in RunPcs /\ ghost[p].cur0 <= state[p].last + 1 =>
                   /\ Iterations(p) <= state[p].last - ghost[p].cur0 + 1
                   /\ state[p].cur = ghost[p].cur0 + Iterations(p)
                                     - (IF pc[p] \in RunPcs \ {"loop", "destroy"}
                                        THEN 1 ELSE 0))
    /\ [][\A p \in Procs :
              StaysInRun(p) =>
                  IF EndsIteration(p)
                  THEN /\ state'[p].cur = state[p].cur + 1
                       /\ disk'.next = FmtD(state'[p].cur)
                  ELSE /\ state'[p].cur = state[p].cur
                       /\ disk'.next = disk.next]_vars

\* a run of two iterations or more has completed: cur is last + 1, the
\* session is gone
C21_Witness ==
    /\ pc[P1] = "done"
    /\ exit[P1].pc = "destroy"
    /\ RunCompleted(P1)
    /\ Iterations(P1) >= 2

====
